---- MODULE Spec2Model ----
(***************************************************************************)
(* Model of qianyl/iter: Registry (iter/util/registry.hpp), ThreadPool     *)
(* (iter/util/thread_pool.hpp), the inotify FileMonitor                    *)
(* (iter/filemonitor/detail/inotify/file_monitor_impl.hpp)                 *)
(*                                                                         *)
(* and FileKeeper (iter/datamanager/file_keeper.hpp).                      *)
(*                                                                         *)
(* The specifications share the variables:                                 *)
(*   SpecRegistry    the Registry alone, one call at a time                *)
(*   SpecRegistryMT  the Registry with a writing and a reading thread      *)
(*   SpecPool        the ThreadPool alone, driven by one submitting thread *)
(*   Spec            the FileMonitor on top of a Registry and a ThreadPool *)
(*   SpecRemove      SpecRegistry and Spec side by side                    *)
(*   SpecKeeper      one FileKeeper reloaded by several pool threads       *)
(* Event masks are bit sets in the code; here a mask is the set of its     *)
(* bits, so `a & b` is a \cap b and `!(a & b)` is a \cap b = {}.           *)
(***************************************************************************)
EXTENDS Integers, Sequences, FiniteSets, TLC

\* ------------------------------------------------------------------ bounds
Bits == 3                \* width of the model's `int` (the code's is 32)
MaxPool == 2             \* largest pool size requested
MinPoolArg == 0 - 1      \* smallest pool size requested
MaxTasks == 2            \* tasks the submitting thread of SpecPool pushes
MaxReg == 2              \* Register calls of the FileMonitor client
MaxRegOps == 3           \* Register calls on the bare Registry
MaxEvents == 2           \* records the kernel queues for changes and overruns
MaxLoaders == 2          \* threads that reload the FileKeeper
MaxLoads == 3            \* Load calls on the FileKeeper
MaxVersion == 2          \* versions of the file the FileKeeper reads

\* --------------------------------------------------------------- constants
IntMax == 2 ^ (Bits - 1) - 1
IntMin == 0 - 2 ^ (Bits - 1)
Ints == IntMin .. IntMax

IN_MODIFY == "IN_MODIFY"
IN_CREATE == "IN_CREATE"
IN_DELETE == "IN_DELETE"
IN_IGNORED == "IN_IGNORED"
IN_Q_OVERFLOW == "IN_Q_OVERFLOW"

\* masks a client registers with, and the kinds of change the kernel reports
Masks == {{IN_MODIFY}, {IN_MODIFY, IN_DELETE}}
Kinds == {IN_MODIFY, IN_CREATE, IN_DELETE}
\* paths: "a" and "b" exist, "missing" does not (inotify_add_watch fails)
Paths == {"a", "b", "missing"}
Existing == {"a", "b"}
\* the nodes a client registers: both masks on "a", one mask elsewhere
Nodes == {n \in [filename : Paths, event_mask : Masks] : n.filename = "a" \/ n.event_mask = {IN_MODIFY}}

Workers == 1 .. (IF MaxPool < 2 THEN 2 ELSE MaxPool)

\* the value of a Node that holds nothing
NoNode == [filename |-> "", event_mask |-> {}]
\* a Registry call inside its critical section: none, or the call and its
\* arguments
NoCall == [op |-> "none", h |-> 0, n |-> NoNode]
\* what the last Get or IsRegistered gave back: found is FALSE for the
\* std::out_of_range thrown by at() and for IsRegistered's false
NoRead == [op |-> "none", h |-> 0, found |-> FALSE, n |-> NoNode]

\* threads that call FileKeeper::Load
Loaders == 1 .. MaxLoaders

\* ----------------------------------------------------------------- helpers
EmptyMap == [x \in {} |-> 0]

\* std::map::emplace / unordered_map::emplace: no effect when the key exists
Emplace(m, k, v) == IF k \in DOMAIN m THEN m ELSE [x \in DOMAIN m \cup {k} |-> IF x = k THEN v ELSE m[x]]

\* erase(key): no effect when the key is absent
Erase(m, k) == [x \in DOMAIN m \ {k} |-> m[x]]

\* `counter ++` on an int of the model's width; signed overflow wraps
Inc(c) == IF c = IntMax THEN IntMin ELSE c + 1

Max(a, b) == IF a > b THEN a ELSE b

\* a task of the pool; a callback task carries the handle, the mask of its
\* FileEvent and the position of its record in the order the kernel
\* queued the records
NoTask == [kind |-> "none", h |-> 0, mask |-> {}, seq |-> 0]
MonitorTask == [kind |-> "monitor", h |-> 0, mask |-> {}, seq |-> 0]
CbTask(h, m, s) == [kind |-> "cb", h |-> h, mask |-> m, seq |-> s]
UserTask(i) == [kind |-> "user", h |-> i, mask |-> {}, seq |-> 0]

Waiting == [st |-> "wait", task |-> NoTask]
Exited == [st |-> "exited", task |-> NoTask]
Running(t) == [st |-> "run", task |-> t]

\* ------------------------------------------------------------------- state
VARIABLES
    \* Registry
    register_map_, register_handle_counter_,
    \* ThreadPool
    pool_size_, tp_shutdown_, thread_list_, task_queue_, worker, pool_dtor,
    \* the thread that submits to the bare pool
    sub_pc, next_task,
    \* FileMonitor::Impl
    oid_wfd_map_, wfd_oid_map_, inotify_fd_, shutdown_, owns_pool, fm_pc,
    \* the kernel's side of the inotify instance
    watches, next_wd, chan, nevents, nrec,
    \* FileMonitor::Impl::Callback (the monitoring loop)
    mon_pc, buffer, node, rfds, tv,
    \* the client thread of the FileMonitor
    cl_ret, cl_status, cl_pre, nreg,
    \* history
    issued, removed, cb_log, pushed, executed, late_enq, at_shutdown,
    overflow_owners, skipped, uaf, crashed,
    \* Registry: a call in the middle of its critical section, and the last read
    rg_w, r_ret, raced,
    \* FileKeeper
    fk_mtx_, fk_pc, fk_state, fk_active, fk_slot, file, last_good, fk_nload, fk_nfail

registryVars == <<register_map_, register_handle_counter_>>
poolVars == <<pool_size_, tp_shutdown_, thread_list_, task_queue_, worker, pool_dtor>>
subVars == <<sub_pc, next_task>>
fmVars == <<oid_wfd_map_, wfd_oid_map_, inotify_fd_, shutdown_, owns_pool, fm_pc>>
kernelVars == <<watches, next_wd, chan, nevents, nrec>>
monVars == <<mon_pc, buffer, node, rfds, tv>>
clVars == <<cl_ret, cl_status, cl_pre, nreg>>
histVars == <<issued, removed, cb_log, pushed, executed, late_enq, at_shutdown, overflow_owners, skipped, uaf, crashed>>
regMtVars == <<rg_w, r_ret, raced>>
keeperVars == <<fk_mtx_, fk_pc, fk_state, fk_active, fk_slot, file, last_good, fk_nload, fk_nfail>>
extVars == <<regMtVars, keeperVars>>

vars == <<registryVars, poolVars, subVars, fmVars, kernelVars, monVars, clVars, histVars, extVars>>


\* ================================================================ Registry
\* Registry::Register: counter ++, emplace(counter, node), return counter
RegistryRegisterMap(n) == Emplace(register_map_, Inc(register_handle_counter_), n)

\* Registry::Remove erasing the handle issued last instead of its argument
RegistryRemoveMap_Latest(h) == Erase(register_map_, register_handle_counter_)

\* Registry::Remove: register_map_.erase(handle)
RegistryRemoveMap(h) == Erase(register_map_, h)

\* Registry::Get written with register_map_[handle], which gives a default
\* Node for a key the map does not hold
RegistryGet_Default(m, h) ==
    IF h \in DOMAIN m THEN [found |-> TRUE, n |-> m[h]] ELSE [found |-> TRUE, n |-> NoNode]

\* Registry::Get on the map m: `return register_map_.at(handle)`; at()
\* throws std::out_of_range for a key the map does not hold
RegistryGet(m, h) ==
    IF h \in DOMAIN m THEN [found |-> TRUE, n |-> m[h]] ELSE [found |-> FALSE, n |-> NoNode]

\* Registry::IsRegistered on the map m: find(handle) != end()
RegistryIsRegistered(m, h) == [found |-> h \in DOMAIN m, n |-> NoNode]

\* FileMonitor::Impl::IsRegistered: registry_.Get()->find(owner_id) != end()
IsRegistered(h) == h \in DOMAIN register_map_

\* ============================================================== ThreadPool
\* ThreadPool::ThreadPool member initialiser: pool_size_(max(pool_size, 1))
PoolSizeField(n) == Max(n, 1)

\* ThreadPool::ThreadPool loop: for (i = 0; i < pool_size; i++) emplace_back
ThreadsStarted(n) == 1 .. n

\* FileMonitor::FileMonitor(size_t): if (thread_pool_size < 2) size = 2
MonitorPoolSize(n) == IF n < 2 THEN 2 ELSE n

AllExited == \A w \in thread_list_ : worker[w].st = "exited"

\* One pass of a worker's critical region: wait for shutdown_ or a task,
\* return when shut down and drained, otherwise pop the front task and
\* start it.  The threads run the same lambda, so of the waiting ones the
\* lowest-numbered stands for whichever the condition variable wakes.
WorkerTake(w) ==
    /\ ~crashed
    /\ w \in thread_list_
    /\ worker[w].st = "wait"
    /\ \A v \in thread_list_ : worker[v].st = "wait" => w <= v
    /\ tp_shutdown_ \/ task_queue_ # <<>>
    /\ IF tp_shutdown_ /\ task_queue_ = <<>>
       THEN /\ worker' = [worker EXCEPT ![w] = Exited]
            /\ UNCHANGED <<task_queue_, mon_pc, cb_log>>
       ELSE /\ worker' = [worker EXCEPT ![w] = Running(Head(task_queue_))]
            /\ task_queue_' = Tail(task_queue_)
            /\ mon_pc' = IF Head(task_queue_).kind = "monitor" THEN "while" ELSE mon_pc
            /\ cb_log' = IF Head(task_queue_).kind = "cb"
                         THEN cb_log \cup {[h |-> Head(task_queue_).h, stale |-> Head(task_queue_).h \in removed]}
                         ELSE cb_log
    /\ UNCHANGED <<registryVars, pool_size_, tp_shutdown_, thread_list_, pool_dtor, subVars, extVars, fmVars, kernelVars>>
    /\ UNCHANGED <<buffer, node, rfds, tv, clVars>>
    /\ UNCHANGED <<issued, removed, pushed, executed, late_enq, at_shutdown, overflow_owners, skipped, uaf, crashed>>

\* task() returns: the worker goes back to the top of its loop
WorkerFinish(w) ==
    /\ ~crashed
    /\ w \in thread_list_
    /\ worker[w].st = "run"
    /\ worker[w].task.kind \in {"cb", "user"}
    /\ worker' = [worker EXCEPT ![w] = Waiting]
    /\ executed' = executed \cup {worker[w].task}
    /\ UNCHANGED <<registryVars, pool_size_, tp_shutdown_, thread_list_, task_queue_, pool_dtor, subVars, extVars, fmVars, kernelVars>>
    /\ UNCHANGED <<monVars, clVars>>
    /\ UNCHANGED <<issued, removed, cb_log, pushed, late_enq, at_shutdown, overflow_owners, skipped, uaf, crashed>>

\* ThreadPool::~ThreadPool, first half: shutdown_ = true under the lock,
\* notify_all.  The pool is held by shared_ptr: this is the destructor run
\* by an outside owner that holds the last reference, so it starts only
\* when no FileMonitor holds the pool.  A pool whose last reference is the
\* FileMonitor's is destroyed by FmDtor.
PoolDtorBegin ==
    /\ ~crashed
    /\ pool_dtor = "alive"
    /\ ~owns_pool
    /\ fm_pc \in {"none", "destroyed"}
    /\ tp_shutdown_' = TRUE
    /\ pool_dtor' = "joining"
    /\ at_shutdown' = {task_queue_[i] : i \in 1 .. Len(task_queue_)}
    /\ UNCHANGED <<registryVars, pool_size_, thread_list_, task_queue_, worker, subVars, extVars, fmVars, kernelVars>>
    /\ UNCHANGED <<monVars, clVars>>
    /\ UNCHANGED <<issued, removed, cb_log, pushed, executed, late_enq, overflow_owners, skipped, uaf, crashed>>

\* ThreadPool::~ThreadPool, second half: every t.join() has returned
PoolDtorJoin ==
    /\ ~crashed
    /\ pool_dtor = "joining"
    /\ AllExited
    /\ pool_dtor' = "done"
    /\ fm_pc' = IF fm_pc = "joining" THEN "destroyed" ELSE fm_pc
    /\ UNCHANGED <<registryVars, pool_size_, tp_shutdown_, thread_list_, task_queue_, worker, subVars, extVars, kernelVars>>
    /\ UNCHANGED <<oid_wfd_map_, wfd_oid_map_, inotify_fd_, shutdown_, owns_pool>>
    /\ UNCHANGED <<monVars, clVars, histVars>>

\* ThreadPool::PushTask, first half: the unlocked `if (shutdown_) return
\* std::future <return_type> ();`
SubmitCheck ==
    /\ ~crashed
    /\ sub_pc = "idle"
    /\ pool_dtor # "done"
    /\ next_task <= MaxTasks
    /\ IF tp_shutdown_
       THEN /\ next_task' = next_task + 1
            /\ UNCHANGED sub_pc
       ELSE /\ sub_pc' = "checked"
            /\ UNCHANGED next_task
    /\ UNCHANGED <<registryVars, poolVars, fmVars, kernelVars, monVars, clVars, histVars, extVars>>

\* ThreadPool::PushTask, second half: task_queue_.emplace under the lock,
\* notify_one, return the future
SubmitEnqueue ==
    /\ ~crashed
    /\ sub_pc = "checked"
    /\ pool_dtor # "done"
    /\ task_queue_' = Append(task_queue_, UserTask(next_task))
    /\ late_enq' = IF tp_shutdown_ THEN late_enq \cup {UserTask(next_task)} ELSE late_enq
    /\ pushed' = pushed \cup {UserTask(next_task)}
    /\ sub_pc' = "idle"
    /\ next_task' = next_task + 1
    /\ UNCHANGED <<registryVars, pool_size_, tp_shutdown_, thread_list_, worker, pool_dtor, fmVars, kernelVars>>
    /\ UNCHANGED <<monVars, clVars, extVars>>
    /\ UNCHANGED <<issued, removed, cb_log, executed, at_shutdown, overflow_owners, skipped, uaf, crashed>>

\* ------------------------------------------------ state shared by the Inits
RegistryIdle ==
    /\ register_map_ = EmptyMap
    /\ issued = <<>>
    /\ removed = {}

PoolStart(requested) ==
    /\ pool_size_ = PoolSizeField(requested)
    /\ tp_shutdown_ = FALSE
    /\ thread_list_ = ThreadsStarted(requested)
    /\ worker = [w \in Workers |-> Waiting]
    /\ pool_dtor = "alive"
    /\ executed = {}
    /\ late_enq = {}
    /\ at_shutdown = {}
    /\ pushed = {}
    /\ cb_log = {}

SubmitterIdle ==
    /\ sub_pc = "idle"
    /\ next_task = 1

\* no Registry call under way, nothing read yet
RegistryCallsIdle ==
    /\ rg_w = NoCall
    /\ r_ret = NoRead
    /\ raced = FALSE

\* FileKeeper after its constructor: the first version of the file is
\* loaded into slot 0, which is the active one; nobody is in Load
KeeperStart ==
    /\ fk_mtx_ = 0
    /\ fk_pc = [t \in Loaders |-> "idle"]
    /\ fk_state = "Ready"
    /\ fk_active = 0
    /\ fk_slot = [i \in {0, 1} |-> IF i = 0 THEN 1 ELSE 0]
    /\ file = 1
    /\ last_good = 1
    /\ fk_nload = 0
    /\ fk_nfail = 0

ExtIdle == RegistryCallsIdle /\ KeeperStart

MonitorIdle ==
    /\ ExtIdle
    /\ oid_wfd_map_ = EmptyMap
    /\ wfd_oid_map_ = EmptyMap
    /\ shutdown_ = FALSE
    /\ watches = EmptyMap
    /\ next_wd = 1
    /\ chan = <<>>
    /\ nevents = 0
    /\ nrec = 0
    /\ mon_pc = "notstarted"
    /\ buffer = <<>>
    /\ node = NoTask
    /\ rfds = TRUE
    /\ tv = 1
    /\ cl_ret = 0
    /\ cl_status = "none"
    /\ cl_pre = {}
    /\ nreg = 0
    /\ overflow_owners = {}
    /\ skipped = {}
    /\ uaf = FALSE
    /\ crashed = FALSE

\* ================================================================ SpecPool
InitPool ==
    /\ \E requested \in MinPoolArg .. MaxPool : PoolStart(requested)
    /\ task_queue_ = <<>>
    /\ SubmitterIdle
    /\ RegistryIdle
    /\ register_handle_counter_ = 0
    /\ MonitorIdle
    /\ fm_pc = "none"
    /\ inotify_fd_ = 0 - 1
    /\ owns_pool = FALSE

NextPool ==
    \/ \E w \in Workers : WorkerTake(w)
    \/ \E w \in Workers : WorkerFinish(w)
    \/ PoolDtorBegin
    \/ PoolDtorJoin
    \/ SubmitCheck
    \/ SubmitEnqueue

SpecPool == InitPool /\ [][NextPool]_vars


\* ================================================= the kernel's inotify side
Closed == inotify_fd_ = 0 - 1 \/ fm_pc # "alive"

WatchOf(p) == {wd \in DOMAIN watches : watches[wd].path = p}

\* inotify_add_watch(fd, path, mask): -1 on failure; the descriptor of the
\* existing watch when the path is already watched; else a fresh descriptor
AddWatchResult(p) ==
    IF inotify_fd_ = 0 - 1 \/ p \notin Existing THEN 0 - 1
    ELSE IF WatchOf(p) # {} THEN CHOOSE wd \in WatchOf(p) : TRUE
    ELSE next_wd

\* the kernel's watch table after a successful inotify_add_watch: an
\* existing watch gets its mask replaced
AddWatchTable(p, m) ==
    LET wd == AddWatchResult(p) IN
    [x \in DOMAIN watches \cup {wd} |-> IF x = wd THEN [path |-> p, mask |-> m] ELSE watches[x]]

\* a raw record; seq is its position in the order the kernel queued them
Record(wd, m, s) == [wd |-> wd, mask |-> m, seq |-> s]

\* a change of kind k to path p: queued for the watch on p whose mask has k
FsEvent(p, k) ==
    /\ ~crashed
    /\ ~Closed
    /\ nevents < MaxEvents
    /\ \E wd \in WatchOf(p) :
        /\ k \in watches[wd].mask
        /\ chan' = Append(chan, Record(wd, {k}, nrec + 1))
    /\ nevents' = nevents + 1
    /\ nrec' = nrec + 1
    /\ UNCHANGED <<registryVars, poolVars, subVars, extVars, fmVars, watches, next_wd, monVars, clVars, histVars>>

\* the event queue overran: the kernel queues one IN_Q_OVERFLOW record,
\* whose wd is -1
KernelOverflow ==
    /\ ~crashed
    /\ ~Closed
    /\ nevents < MaxEvents
    /\ chan' = Append(chan, Record(0 - 1, {IN_Q_OVERFLOW}, nrec + 1))
    /\ nevents' = nevents + 1
    /\ nrec' = nrec + 1
    /\ UNCHANGED <<registryVars, poolVars, subVars, extVars, fmVars, watches, next_wd, monVars, clVars, histVars>>

\* ====================================================== FileMonitor client
\* FileMonitor::Impl::Register: registry_.Register(node) under the
\* registry's lock, AddWatcher under mtx_, `return ret ? owner_id : -1`.
\* Between the two critical sections the new owner_id is in no descriptor
\* map, so no other thread of this specification can tell the two apart and
\* the call is one step.
Register(n) ==
    /\ ~crashed
    /\ fm_pc = "alive"
    /\ nreg < MaxReg
    /\ LET owner_id == Inc(register_handle_counter_)
           watcher_fd == AddWatchResult(n.filename) IN
       /\ register_handle_counter_' = owner_id
       /\ register_map_' = RegistryRegisterMap(n)
       /\ cl_pre' = DOMAIN register_map_
       /\ IF watcher_fd = 0 - 1
          THEN /\ cl_ret' = 0 - 1
               /\ cl_status' = "failed"
               /\ UNCHANGED <<oid_wfd_map_, wfd_oid_map_, watches, next_wd, issued>>
          ELSE /\ oid_wfd_map_' = Emplace(oid_wfd_map_, owner_id, watcher_fd)
               /\ wfd_oid_map_' = Emplace(wfd_oid_map_, watcher_fd, owner_id)
               /\ watches' = AddWatchTable(n.filename, n.event_mask)
               /\ next_wd' = IF watcher_fd = next_wd THEN next_wd + 1 ELSE next_wd
               /\ cl_ret' = owner_id
               /\ cl_status' = "ok"
               /\ issued' = Append(issued, owner_id)
    /\ nreg' = nreg + 1
    /\ UNCHANGED <<poolVars, subVars, extVars, inotify_fd_, shutdown_, owns_pool, fm_pc>>
    /\ UNCHANGED <<chan, nevents, nrec, monVars>>
    /\ UNCHANGED <<removed, cb_log, pushed, executed, late_enq, at_shutdown, overflow_owners, skipped, uaf, crashed>>

Issued == {issued[i] : i \in 1 .. Len(issued)}

\* FileMonitor::Impl::Remove, the whole body under mtx_; called with a
\* handle Register returned, with one whose watch could not be added, or
\* with the one not issued yet
Remove(h) ==
    /\ ~crashed
    /\ fm_pc = "alive"
    /\ h \in Issued \/ h \in DOMAIN register_map_ \/ h = Inc(register_handle_counter_)
    /\ IF h \notin DOMAIN oid_wfd_map_
       THEN UNCHANGED <<oid_wfd_map_, wfd_oid_map_, watches, chan, nrec>>
       ELSE LET watcher_fd == oid_wfd_map_[h] IN
            /\ oid_wfd_map_' = Erase(oid_wfd_map_, h)
            /\ wfd_oid_map_' = Erase(wfd_oid_map_, watcher_fd)
            \* inotify_rm_watch: drops the watch and queues IN_IGNORED for
            \* it, or fails (logged) when the descriptor is not watched
            /\ watches' = Erase(watches, watcher_fd)
            /\ chan' = IF watcher_fd \in DOMAIN watches
                       THEN Append(chan, Record(watcher_fd, {IN_IGNORED}, nrec + 1))
                       ELSE chan
            /\ nrec' = IF watcher_fd \in DOMAIN watches THEN nrec + 1 ELSE nrec
    /\ removed' = IF h \in Issued THEN removed \cup {h} ELSE removed
    /\ cl_status' = "none"
    /\ UNCHANGED <<registryVars, poolVars, subVars, extVars, inotify_fd_, shutdown_, owns_pool, fm_pc>>
    /\ UNCHANGED <<next_wd, nevents, monVars, cl_ret, cl_pre, nreg>>
    /\ UNCHANGED <<issued, cb_log, pushed, executed, late_enq, at_shutdown, overflow_owners, skipped, uaf, crashed>>

\* ========================================= FileMonitor::Impl::Callback loop
MonitorWorkerDone == [w \in Workers |-> IF worker[w].task.kind = "monitor" THEN Waiting ELSE worker[w]]

\* One turn of the while loop up to the for loop: the test of shutdown_,
\* select(fdmax, &rfds, NULL, NULL, &tv) with the two `continue`s after
\* it, and read(inotify_fd_, buffer, LEN).
\*  - shutdown_ is read unsynchronised; once the Impl has been freed the
\*    value read is arbitrary.
\*  - rfds and tv are set once before the loop and select overwrites both:
\*    when nothing in the set is readable within tv it returns 0, clears
\*    rfds and leaves tv at zero.
\*  - on a closed descriptor select fails and the loop continues.
\*  - read takes every queued record.
MonWake ==
    /\ ~crashed
    /\ mon_pc = "while"
    /\ \E flag \in BOOLEAN :
        /\ fm_pc # "destroyed" => flag = shutdown_
        /\ IF flag
           THEN /\ mon_pc' = "exited"
                /\ worker' = MonitorWorkerDone
                /\ UNCHANGED <<rfds, tv, buffer, chan>>
           ELSE IF fm_pc # "alive"
           THEN UNCHANGED <<mon_pc, worker, rfds, tv, buffer, chan>>
           ELSE IF rfds /\ chan # <<>>
           THEN /\ buffer' = chan
                /\ chan' = <<>>
                /\ mon_pc' = "for"
                /\ UNCHANGED <<worker, rfds, tv>>
           ELSE /\ rfds' = FALSE
                /\ tv' = 0
                /\ UNCHANGED <<mon_pc, worker, buffer, chan>>
    /\ UNCHANGED <<registryVars, pool_size_, tp_shutdown_, thread_list_, task_queue_, pool_dtor, subVars, extVars, fmVars>>
    /\ UNCHANGED <<watches, next_wd, nevents, nrec, node, clVars>>
    /\ UNCHANGED <<issued, removed, cb_log, pushed, executed, late_enq, at_shutdown, overflow_owners, skipped, uaf, crashed>>

AfterEvent(rest) == IF rest = <<>> THEN "while" ELSE "for"

\* the for loop without its test of node.event_mask
Resolve_NoFilter(event) ==
    IF event.wd \notin DOMAIN wfd_oid_map_ THEN NoTask
    ELSE IF wfd_oid_map_[event.wd] \notin DOMAIN register_map_ THEN NoTask
    ELSE IF tp_shutdown_ THEN NoTask
    ELSE CbTask(wfd_oid_map_[event.wd], event.mask, event.seq)

\* what one turn of the for loop does with the record `event`, up to and
\* including PushTask's unlocked shutdown_ test: "skip" for each
\* `continue` and for the empty future, else the task to enqueue
Resolve(event) ==
    IF event.wd \notin DOMAIN wfd_oid_map_ THEN NoTask
    ELSE IF wfd_oid_map_[event.wd] \notin DOMAIN register_map_ THEN NoTask
    ELSE IF register_map_[wfd_oid_map_[event.wd]].event_mask \cap event.mask = {} THEN NoTask
    ELSE IF tp_shutdown_ THEN NoTask
    ELSE CbTask(wfd_oid_map_[event.wd], event.mask, event.seq)

\* the record resolves to a registered entry and `!(node.event_mask &
\* event->mask)` holds
MaskMiss(event) ==
    /\ event.wd \in DOMAIN wfd_oid_map_
    /\ wfd_oid_map_[event.wd] \in DOMAIN register_map_
    /\ register_map_[wfd_oid_map_[event.wd]].event_mask \cap event.mask = {}

\* One turn of the for loop: decode the next record, look the owner up
\* under mtx_, copy its Node, filter by mask, enter PushTask.  On a freed
\* Impl the lookup is a use after free: it either goes on with the stale
\* contents or crashes the process.
MonDispatch ==
    /\ ~crashed
    /\ mon_pc = "for"
    /\ LET event == Head(buffer) IN
       \/ /\ buffer' = Tail(buffer)
          /\ node' = Resolve(event)
          /\ mon_pc' = IF Resolve(event) = NoTask THEN AfterEvent(Tail(buffer)) ELSE "push"
          /\ overflow_owners' = IF IN_Q_OVERFLOW \in event.mask /\ fm_pc = "alive" /\ ~tp_shutdown_
                                THEN overflow_owners \cup DOMAIN oid_wfd_map_
                                ELSE overflow_owners
          /\ skipped' = IF MaskMiss(event) THEN skipped \cup {event} ELSE skipped
          /\ UNCHANGED crashed
       \/ /\ fm_pc = "destroyed"
          /\ crashed' = TRUE
          /\ UNCHANGED <<buffer, node, mon_pc, overflow_owners, skipped>>
    /\ uaf' = (uaf \/ fm_pc = "destroyed")
    /\ UNCHANGED <<registryVars, poolVars, subVars, extVars, fmVars, kernelVars, rfds, tv, clVars>>
    /\ UNCHANGED <<issued, removed, cb_log, pushed, executed, late_enq, at_shutdown>>

\* PushTask putting the task at the front of task_queue_
MonEnqueue_Front ==
    /\ ~crashed
    /\ mon_pc = "push"
    /\ task_queue_' = <<node>> \o task_queue_
    /\ pushed' = pushed \cup {node}
    /\ late_enq' = IF tp_shutdown_ THEN late_enq \cup {node} ELSE late_enq
    /\ node' = NoTask
    /\ mon_pc' = AfterEvent(buffer)
    /\ UNCHANGED <<registryVars, pool_size_, tp_shutdown_, thread_list_, worker, pool_dtor, subVars, extVars, fmVars, kernelVars>>
    /\ UNCHANGED <<buffer, rfds, tv, clVars>>
    /\ UNCHANGED <<issued, removed, cb_log, executed, at_shutdown, overflow_owners, skipped, uaf, crashed>>

\* thread_pool_ptr_->PushTask(node.callback, file_event), second half:
\* task_queue_.emplace under the pool's lock
MonEnqueue ==
    /\ ~crashed
    /\ mon_pc = "push"
    /\ task_queue_' = Append(task_queue_, node)
    /\ pushed' = pushed \cup {node}
    /\ late_enq' = IF tp_shutdown_ THEN late_enq \cup {node} ELSE late_enq
    /\ node' = NoTask
    /\ mon_pc' = AfterEvent(buffer)
    /\ UNCHANGED <<registryVars, pool_size_, tp_shutdown_, thread_list_, worker, pool_dtor, subVars, extVars, fmVars, kernelVars>>
    /\ UNCHANGED <<buffer, rfds, tv, clVars>>
    /\ UNCHANGED <<issued, removed, cb_log, executed, at_shutdown, overflow_owners, skipped, uaf, crashed>>

\* FileMonitor::Impl::~Impl: shutdown_ = true, close(inotify_fd_) (which
\* drops the kernel's watches and queue), then the members in reverse
\* order of declaration: mtx_, thread_pool_ptr_ (running ~ThreadPool up to
\* its joins when this was the last reference), the two maps, registry_.
FmDtor ==
    /\ ~crashed
    /\ fm_pc = "alive"
    /\ shutdown_' = TRUE
    /\ watches' = EmptyMap
    /\ chan' = <<>>
    /\ IF owns_pool
       THEN /\ tp_shutdown_' = TRUE
            /\ pool_dtor' = "joining"
            /\ at_shutdown' = {task_queue_[i] : i \in 1 .. Len(task_queue_)}
            /\ fm_pc' = "joining"
       ELSE /\ fm_pc' = "destroyed"
            /\ UNCHANGED <<tp_shutdown_, pool_dtor, at_shutdown>>
    /\ UNCHANGED <<registryVars, pool_size_, thread_list_, task_queue_, worker, subVars, extVars>>
    /\ UNCHANGED <<oid_wfd_map_, wfd_oid_map_, inotify_fd_, owns_pool, next_wd, nevents, nrec, monVars, clVars>>
    /\ UNCHANGED <<issued, removed, cb_log, pushed, executed, late_enq, overflow_owners, skipped, uaf, crashed>>

\* ==================================================================== Spec
\* FileMonitor::FileMonitor(size_t) makes its own pool of at least two
\* threads; FileMonitor::FileMonitor(shared_ptr) takes any pool.  Impl::Impl
\* sets shutdown_, opens the inotify instance and, when that worked, pushes
\* Callback onto the pool.  registry_ is default-initialised, which leaves
\* register_handle_counter_ without a value.
FdValues == {0 - 1, 3}

\* values the never-initialised counter is given: a small one and one next
\* to the largest int
CounterStarts == {0, IntMax - 1}

Init ==
    /\ \E requested \in MinPoolArg .. MaxPool :
        \/ /\ PoolStart(MonitorPoolSize(requested))
           /\ owns_pool = TRUE
        \/ /\ PoolStart(requested)
           /\ owns_pool \in BOOLEAN
    /\ inotify_fd_ \in FdValues
    /\ task_queue_ = IF inotify_fd_ = 0 - 1 THEN <<>> ELSE <<MonitorTask>>
    /\ SubmitterIdle
    /\ RegistryIdle
    /\ register_handle_counter_ \in CounterStarts
    /\ MonitorIdle
    /\ fm_pc = "alive"

Next ==
    \/ \E w \in Workers : WorkerTake(w)
    \/ \E w \in Workers : WorkerFinish(w)
    \/ PoolDtorBegin
    \/ PoolDtorJoin
    \/ \E n \in Nodes : Register(n)
    \/ \E h \in Ints : Remove(h)
    \/ \E p \in Paths, k \in Kinds : FsEvent(p, k)
    \/ KernelOverflow
    \/ MonWake
    \/ MonDispatch
    \/ MonEnqueue
    \/ FmDtor

Spec == Init /\ [][Next]_vars


\* ============================================================ SpecRegistry
\* the steps of the history variables and of the parts that stand still in
\* the Registry's own specifications
RegistryFrame ==
    /\ UNCHANGED <<poolVars, subVars, keeperVars, fmVars, kernelVars, monVars, cl_ret, cl_status, cl_pre>>
    /\ UNCHANGED <<cb_log, pushed, executed, late_enq, at_shutdown, overflow_owners, skipped, uaf, crashed>>

\* Registry::Register called on its own, from lock to return
R_Register(n) ==
    /\ fm_pc = "none"
    /\ rg_w = NoCall
    /\ nreg < MaxRegOps
    /\ register_handle_counter_' = Inc(register_handle_counter_)
    /\ register_map_' = RegistryRegisterMap(n)
    /\ issued' = Append(issued, Inc(register_handle_counter_))
    /\ nreg' = nreg + 1
    /\ RegistryFrame
    /\ UNCHANGED <<removed, regMtVars>>

\* Registry::Remove called on its own, from lock to return: with a
\* registered handle, with one that was removed before, or with the one not
\* issued yet
R_Remove(h) ==
    /\ fm_pc = "none"
    /\ rg_w = NoCall
    /\ h \in DOMAIN register_map_ \/ h \in Issued \/ h = Inc(register_handle_counter_)
    /\ register_map_' = RegistryRemoveMap(h)
    /\ removed' = IF h \in Issued THEN removed \cup {h} ELSE removed
    /\ RegistryFrame
    /\ UNCHANGED <<register_handle_counter_, issued, nreg, regMtVars>>

\* the map a Registry call inside its critical section leaves behind
MapAfter(call) ==
    IF call.op = "Register" THEN RegistryRegisterMap(call.n)
    ELSE IF call.op = "Remove" THEN RegistryRemoveMap(call.h)
    ELSE register_map_

\* Get and IsRegistered take no lock.  A read that overlaps a mutation of
\* register_map_ is a data race: it may see the map of before or of after
\* the mutation.
ReadMaps == {register_map_, MapAfter(rg_w)}

\* Registry::Get
R_Get(h) ==
    /\ fm_pc = "none"
    /\ \E m \in ReadMaps :
        r_ret' = [op |-> "Get", h |-> h, found |-> RegistryGet(m, h).found, n |-> RegistryGet(m, h).n]
    /\ raced' = (raced \/ rg_w # NoCall)
    /\ RegistryFrame
    /\ UNCHANGED <<registryVars, issued, removed, nreg, rg_w>>

\* Registry::IsRegistered
R_IsRegistered(h) ==
    /\ fm_pc = "none"
    /\ \E m \in ReadMaps :
        r_ret' = [op |-> "IsRegistered", h |-> h, found |-> RegistryIsRegistered(m, h).found, n |-> NoNode]
    /\ raced' = (raced \/ rg_w # NoCall)
    /\ RegistryFrame
    /\ UNCHANGED <<registryVars, issued, removed, nreg, rg_w>>

\* the handles the reads are tried with: those in the map, those issued and
\* the next one
ReadHandles == DOMAIN register_map_ \cup Issued \cup {Inc(register_handle_counter_)}

\* Registry has no constructor: register_map_ starts empty,
\* register_handle_counter_ starts with whatever the storage holds
InitRegistry ==
    /\ RegistryIdle
    /\ register_handle_counter_ \in Ints
    /\ PoolStart(0)
    /\ task_queue_ = <<>>
    /\ SubmitterIdle
    /\ MonitorIdle
    /\ fm_pc = "none"
    /\ inotify_fd_ = 0 - 1
    /\ owns_pool = FALSE

NextRegistry ==
    \/ \E n \in Nodes : R_Register(n)
    \/ \E h \in Ints : R_Remove(h)
    \/ \E h \in ReadHandles : R_Get(h)
    \/ \E h \in ReadHandles : R_IsRegistered(h)

SpecRegistry == InitRegistry /\ [][NextRegistry]_vars

\* ========================================================== SpecRegistryMT
\* One thread calls Register and Remove, another Get and IsRegistered.
\* Register and Remove hold mtx_ from their first statement to their return;
\* rg_w is the call that holds it.
\* Registry::Register, `std::lock_guard<std::mutex> lck(mtx_)`
W_Register(n) ==
    /\ rg_w = NoCall
    /\ nreg < MaxRegOps
    /\ rg_w' = [op |-> "Register", h |-> 0, n |-> n]
    /\ nreg' = nreg + 1
    /\ RegistryFrame
    /\ UNCHANGED <<registryVars, issued, removed, r_ret, raced>>

\* Registry::Remove, `std::lock_guard<std::mutex> lck(mtx_)`
W_Remove(h) ==
    /\ rg_w = NoCall
    /\ h \in DOMAIN register_map_
    /\ rg_w' = [op |-> "Remove", h |-> h, n |-> NoNode]
    /\ RegistryFrame
    /\ UNCHANGED <<registryVars, issued, removed, nreg, r_ret, raced>>

\* the rest of the call that holds the lock: the mutation and the return
W_Return ==
    /\ rg_w # NoCall
    /\ register_map_' = MapAfter(rg_w)
    /\ IF rg_w.op = "Register"
       THEN /\ register_handle_counter_' = Inc(register_handle_counter_)
            /\ issued' = Append(issued, Inc(register_handle_counter_))
            /\ UNCHANGED removed
       ELSE /\ removed' = removed \cup {rg_w.h}
            /\ UNCHANGED <<register_handle_counter_, issued>>
    /\ rg_w' = NoCall
    /\ RegistryFrame
    /\ UNCHANGED <<nreg, r_ret, raced>>

NextRegistryMT ==
    \/ \E n \in Nodes : W_Register(n)
    \/ \E h \in Ints : W_Remove(h)
    \/ W_Return
    \/ \E h \in ReadHandles : R_Get(h)
    \/ \E h \in ReadHandles : R_IsRegistered(h)

SpecRegistryMT == InitRegistry /\ [][NextRegistryMT]_vars

\* ============================================================== SpecRemove
\* the bare Registry and the FileMonitor, each from its own initial states
InitRemove == InitRegistry \/ Init

NextRemove == NextRegistry \/ Next

SpecRemove == InitRemove /\ [][NextRemove]_vars

\* ============================================================== SpecKeeper
\* FileKeeper::Load as called by several threads.  `file` is what the file
\* holds: a version 1 .. MaxVersion, or 0 when it is missing or malformed
\* and the load function fails on it.  fk_slot are the two buffers of the
\* DoubleBuffer, fk_active the index GetBuffer reads.
KeeperFrame ==
    UNCHANGED <<registryVars, poolVars, subVars, fmVars, kernelVars, monVars, clVars, histVars, regMtVars>>

\* the file is rewritten, removed or damaged
FileWrite(v) ==
    /\ v # file
    /\ file' = v
    /\ KeeperFrame
    /\ UNCHANGED <<fk_mtx_, fk_pc, fk_state, fk_active, fk_slot, last_good, fk_nload, fk_nfail>>

\* a thread calls Load
K_Call(t) ==
    /\ fk_pc[t] = "idle"
    /\ fk_nload < MaxLoads
    /\ fk_pc' = [fk_pc EXCEPT ![t] = "lock"]
    /\ fk_nload' = fk_nload + 1
    /\ KeeperFrame
    /\ UNCHANGED <<fk_mtx_, fk_state, fk_active, fk_slot, file, last_good, fk_nfail>>

\* Load starting the load function without waiting for mtx_
K_Lock_NoMutex(t) ==
    /\ fk_pc[t] = "lock"
    /\ fk_mtx_' = t
    /\ fk_pc' = [fk_pc EXCEPT ![t] = "load"]
    /\ fk_state' = "Reloading"
    /\ KeeperFrame
    /\ UNCHANGED <<fk_active, fk_slot, file, last_good, fk_nload, fk_nfail>>

\* Load takes mtx_ and starts the load function on the inactive buffer
K_Lock(t) ==
    /\ fk_pc[t] = "lock"
    /\ fk_mtx_ = 0
    /\ fk_mtx_' = t
    /\ fk_pc' = [fk_pc EXCEPT ![t] = "load"]
    /\ fk_state' = "Reloading"
    /\ KeeperFrame
    /\ UNCHANGED <<fk_active, fk_slot, file, last_good, fk_nload, fk_nfail>>

\* the load function succeeded: the inactive buffer holds the file and
\* becomes the active one; Load releases mtx_ and returns true
K_LoadOk(t) ==
    /\ fk_pc[t] = "load"
    /\ file # 0
    /\ fk_slot' = [fk_slot EXCEPT ![1 - fk_active] = file]
    /\ fk_active' = 1 - fk_active
    /\ last_good' = file
    /\ fk_mtx_' = 0
    /\ fk_pc' = [fk_pc EXCEPT ![t] = "idle"]
    /\ fk_state' = "Ready"
    /\ KeeperFrame
    /\ UNCHANGED <<file, fk_nload, fk_nfail>>

\* Load swapping the buffers whatever the load function returned
K_LoadFail_Publish(t) ==
    /\ fk_pc[t] = "load"
    /\ file = 0
    /\ fk_slot' = [fk_slot EXCEPT ![1 - fk_active] = 0]
    /\ fk_mtx_' = 0
    /\ fk_pc' = [fk_pc EXCEPT ![t] = "idle"]
    /\ fk_state' = "Ready"
    /\ fk_nfail' = fk_nfail + 1
    /\ KeeperFrame
    /\ fk_active' = 1 - fk_active
    /\ UNCHANGED <<file, last_good, fk_nload>>

\* the load function failed, leaving the inactive buffer half written: no
\* swap; Load releases mtx_ and returns false
K_LoadFail(t) ==
    /\ fk_pc[t] = "load"
    /\ file = 0
    /\ fk_slot' = [fk_slot EXCEPT ![1 - fk_active] = 0]
    /\ fk_mtx_' = 0
    /\ fk_pc' = [fk_pc EXCEPT ![t] = "idle"]
    /\ fk_state' = "Ready"
    /\ fk_nfail' = fk_nfail + 1
    /\ KeeperFrame
    /\ UNCHANGED <<fk_active, file, last_good, fk_nload>>

InitKeeper == InitRegistry /\ register_handle_counter_ = 0

NextKeeper ==
    \/ \E v \in 0 .. MaxVersion : FileWrite(v)
    \/ \E t \in Loaders : K_Call(t)
    \/ \E t \in Loaders : K_Lock(t)
    \/ \E t \in Loaders : K_LoadOk(t)
    \/ \E t \in Loaders : K_LoadFail(t)

SpecKeeper == InitKeeper /\ [][NextKeeper]_vars

\* ================================================================== claims
\* C1: once Remove(h) has returned, no callback registered under h is
\* invoked: every callback a worker starts is for a handle whose Remove has
\* not returned.
C1_NoCallbackAfterRemove == \A e \in cb_log : ~e.stale

\* C2: the handle->descriptor map and the descriptor->handle map are exact
\* inverses of each other in every reachable state.
C2_MapsInverse ==
    /\ \A h \in DOMAIN oid_wfd_map_ :
        oid_wfd_map_[h] \in DOMAIN wfd_oid_map_ /\ wfd_oid_map_[oid_wfd_map_[h]] = h
    /\ \A d \in DOMAIN wfd_oid_map_ :
        wfd_oid_map_[d] \in DOMAIN oid_wfd_map_ /\ oid_wfd_map_[wfd_oid_map_[d]] = d

\* C3: when the OS cannot establish the watch, Register returns the failure
\* value and the handles for which IsRegistered is true are those of before
\* the call.
C3_FailedRegisterIssuesNothing ==
    cl_status = "failed" => (cl_ret = 0 - 1 /\ {h \in Ints : IsRegistered(h)} = cl_pre)

\* C4: a handle returned by a successful Register is registered exactly
\* until its Remove: IsRegistered(h) is true before Remove(h) has returned
\* and false after.
C4_LiveUntilRemove == \A h \in Issued : IsRegistered(h) <=> h \notin removed

\* C5: an overflow record makes the monitoring loop submit a full-rescan
\* callback for every handle registered on the channel: once the loop is
\* done with the batch that held the record, a callback task carrying
\* IN_Q_OVERFLOW has been pushed for each of those handles.
C5_OverflowRescan ==
    mon_pc \in {"while", "exited"} =>
        \A h \in overflow_owners :
            \E t \in pushed : t.kind = "cb" /\ t.h = h /\ t.mask = {IN_Q_OVERFLOW}

\* C6: the monitoring loop never locks or reads the shared tables after the
\* FileMonitor destructor has completed.
C6_NoTouchAfterDtor == ~uaf

\* C7: a constructed pool runs at least one worker thread, and as many as
\* Size() reports.
C7_AtLeastOneWorker ==
    /\ Cardinality(thread_list_) >= 1
    /\ Cardinality(thread_list_) = pool_size_

\* C8: once shutdown has started no Submit adds a task to the queue, and no
\* task is left in the queue after the workers have exited.
C8_NoEnqueueAfterShutdown ==
    /\ late_enq = {}
    /\ pool_dtor = "done" => task_queue_ = <<>>

\* C9: shutdown is a graceful drain: when the destructor returns every task
\* that was queued when the flag was set has been executed, and a worker
\* has exited only with the flag set.
C9_GracefulDrain ==
    /\ pool_dtor = "done" => at_shutdown \subseteq executed
    /\ \A w \in thread_list_ : worker[w].st = "exited" => tp_shutdown_

\* C10: the handles Register returns are strictly increasing in the order
\* of the registrations (hence pairwise distinct and never issued again).
C10_HandlesIncreasing ==
    \A i, j \in 1 .. Len(issued) : i < j => issued[i] < issued[j]

\* C11: the Registry is thread-safe for all its operations: no Get or
\* IsRegistered reads register_map_ while a Register or Remove of another
\* thread is inside its critical section.
C11_NoReadDuringMutation == ~raced

\* C12: for every record the monitoring loop resolves to a registered
\* entry while the pool takes tasks, the callback is submitted exactly when
\* the entry's mask and the record's mask have a bit in common.
C12_MaskFilter ==
    [][(MonDispatch /\ ~crashed' /\ ~tp_shutdown_
            /\ Head(buffer).wd \in DOMAIN wfd_oid_map_
            /\ wfd_oid_map_[Head(buffer).wd] \in DOMAIN register_map_)
        => LET event == Head(buffer)
               owner == wfd_oid_map_[event.wd] IN
           (mon_pc' = "push" /\ node'.kind = "cb" /\ node'.h = owner /\ node'.mask = event.mask)
               <=> (register_map_[owner].event_mask \cap event.mask # {})]_vars

\* a record was dropped by the mask test and a callback was submitted
C12_Witness == skipped # {} /\ \E t \in pushed : t.kind = "cb"

\* C13: at most one thread is inside the load function of a FileKeeper at
\* any time, and it is the one that holds mtx_; a Load called meanwhile
\* waits for the lock.
C13_OneReloadAtATime ==
    /\ Cardinality({t \in Loaders : fk_pc[t] = "load"}) <= 1
    /\ \A t \in Loaders : fk_pc[t] = "load" => fk_mtx_ = t

\* one thread is loading while another waits for the lock
C13_Witness == \E t, u \in Loaders : fk_pc[t] = "load" /\ fk_pc[u] = "lock"

\* C14: a failed reload never changes the published snapshot: the active
\* buffer always holds what the last successful load read, and the
\* FileKeeper is Ready whenever no thread is loading.
C14_FailedReloadKeepsSnapshot ==
    /\ fk_slot[fk_active] = last_good
    /\ (\A t \in Loaders : fk_pc[t] # "load") => fk_state = "Ready"

\* a reload has failed after an earlier one had swapped the buffers
C14_Witness ==
    /\ fk_nfail >= 1
    /\ fk_active = 1
    /\ fk_slot[1 - fk_active] = 0
    /\ \A t \in Loaders : fk_pc[t] = "idle"

\* C15: Get with a handle that is not registered fails (at() throws) and
\* gives no entry, and leaves the map and the counter as they were.
C15_GetAbsentFails ==
    [][\A h \in Ints : (R_Get(h) /\ h \notin DOMAIN register_map_)
        => (~r_ret'.found /\ r_ret'.n = NoNode /\ UNCHANGED registryVars)]_vars

\* Get was called with an absent handle on a registry that holds entries
C15_Witness ==
    /\ r_ret.op = "Get"
    /\ r_ret.h \notin DOMAIN register_map_
    /\ ~r_ret.found
    /\ register_map_ # EmptyMap

\* C16: Remove with a handle that is not registered changes nothing, in
\* the Registry (map and counter) and in the FileMonitor (both descriptor
\* maps, the kernel's watches and its queue); after any Remove(h) the
\* handle is absent, so a second Remove(h) changes nothing.
C16_RemoveAbsentNoop ==
    [][\A h \in Ints :
        /\ (R_Remove(h) /\ h \notin DOMAIN register_map_) => UNCHANGED registryVars
        /\ R_Remove(h) => h \notin DOMAIN register_map_'
        /\ (Remove(h) /\ h \notin DOMAIN oid_wfd_map_)
             => UNCHANGED <<registryVars, oid_wfd_map_, wfd_oid_map_, watches, chan>>
        /\ Remove(h) => h \notin DOMAIN oid_wfd_map_']_vars

\* the FileMonitor's Remove is the call that returned last and no handle
\* Register returned has been removed, so it was called with a handle that
\* is not registered, while another handle is
C16_Witness == cl_status = "none" /\ nreg > 0 /\ removed = {} /\ oid_wfd_map_ # EmptyMap

\* C17: while the FileMonitor is alive every turn of the monitoring loop
\* waits on the inotify descriptor with the bounded timeout, after earlier
\* turns that timed out as well: whenever the loop is about to select, the
\* descriptor is in the set it passes and the timeout is not zero.
C17_WaitsOnChannel == (fm_pc = "alive" /\ mon_pc = "while") => (rfds /\ tv # 0)

\* the callback tasks that are in the queue, in the monitoring loop's hand
\* or taken by a worker
QueuedCb == {t \in {task_queue_[i] : i \in 1 .. Len(task_queue_)} : t.kind = "cb"}
TakenCb == {t \in executed \cup {worker[w].task : w \in Workers} : t.kind = "cb"}

\* C18: callback tasks are enqueued in the order the kernel queued their
\* records and taken in the order they were enqueued: task_queue_ is in
\* record order, every task a worker has taken is older than every task
\* still queued, and every record not yet dispatched is newer than every
\* task.
C18_FifoOrder ==
    /\ \A i, j \in 1 .. Len(task_queue_) :
        (i < j /\ task_queue_[i].kind = "cb" /\ task_queue_[j].kind = "cb")
            => task_queue_[i].seq < task_queue_[j].seq
    /\ \A t \in TakenCb, u \in QueuedCb : t.seq < u.seq
    /\ node.kind = "cb" => \A t \in TakenCb \cup QueuedCb : t.seq < node.seq
    /\ \A i \in 1 .. Len(buffer) :
        /\ \A t \in TakenCb \cup QueuedCb \cup {node} : t.seq < buffer[i].seq
        /\ \A j \in 1 .. Len(buffer) : i < j => buffer[i].seq < buffer[j].seq
        /\ \A j \in 1 .. Len(chan) : buffer[i].seq < chan[j].seq
    /\ \A i, j \in 1 .. Len(chan) : i < j => chan[i].seq < chan[j].seq

\* two callback tasks of one handle wait in the queue
C18_Witness ==
    \E i, j \in 1 .. Len(task_queue_) :
        /\ i < j
        /\ task_queue_[i].kind = "cb" /\ task_queue_[j].kind = "cb"
        /\ task_queue_[i].h = task_queue_[j].h

\* C19: the monitoring loop never occupies every worker of the pool:
\* whenever a worker runs it, the pool has another thread for the callback
\* tasks.
C19_MonitorLeavesAWorker ==
    \A w \in thread_list_ :
        (worker[w].st = "run" /\ worker[w].task.kind = "monitor")
            => \E v \in thread_list_ : v # w

\* C20: Remove(h1) leaves every other registered handle h2 as it was: its
\* entry in the handle map, the entry of the descriptor map that names it,
\* and its watch in the kernel.
C20_RemoveFrame ==
    [][\A h1 \in Ints : Remove(h1) =>
        \A h2 \in DOMAIN oid_wfd_map_ \ {h1} :
            /\ h2 \in DOMAIN oid_wfd_map_' /\ oid_wfd_map_'[h2] = oid_wfd_map_[h2]
            /\ \A d \in DOMAIN wfd_oid_map_ :
                wfd_oid_map_[d] = h2 => (d \in DOMAIN wfd_oid_map_' /\ wfd_oid_map_'[d] = h2)
            /\ oid_wfd_map_[h2] \in DOMAIN watches =>
                (oid_wfd_map_[h2] \in DOMAIN watches'
                    /\ watches'[oid_wfd_map_[h2]] = watches[oid_wfd_map_[h2]])]_vars

====
